---- MODULE Spec2Model ----
(***************************************************************************)
(* A model of Phaser.Text (src/src/gameobjects/Text.js): the dirty-flag    *)
(* protocol of the text object, its layout pass (updateText), the greedy   *)
(* word wrap, the per-character compositor (updateLine), the tab layout    *)
(* (renderTabLine) and the surface/texture sync (updateTexture).           *)
(*                                                                         *)
(* A string is a sequence of one-character strings.  A CSS font string is  *)
(* a sequence of whitespace-separated tokens.  Pixel quantities are        *)
(* integers.                                                               *)
(***************************************************************************)
EXTENDS Integers, Sequences, FiniteSets, TLC

VARIABLES
    t,          \* the Phaser.Text object: its fields
    cache,      \* Phaser.Text.fontPropertiesCache: font string -> metrics
    op,         \* the public operation that ran last ("render": a render trigger)
    ranUpdate,  \* whether that operation ran updateText
    left,       \* mutating operations the behaviour may still perform
    readback,   \* host: whether context.getImageData returns pixel data
    wrapIn,     \* runWordWrap on its own: the call's text, wordWrapWidth, font
    wrapOut     \* runWordWrap on its own: whether it returned, and what

vars == <<t, cache, op, ranUpdate, left, readback, wrapIn, wrapOut>>

NULL == "null"

\* ---------------------------------------------------------------- bounds

\* Longest text drawn from the character alphabet.
MaxLen == 5
\* Largest word-wrap width budget tried.
MaxWidth == 6
\* Number of mutating operations in one behaviour of the object.
MaxOps == 1
\* Number of override operations in one behaviour of the compositor.
MaxAdds == 2
\* Number of style, font and bounds operations in one behaviour of the style.
MaxCalls == 2

\* ------------------------------------------------------- strings, canvas

SP == " "
NL == "\n"
CR == "\r"
TAB == "\t"

RECURSIVE SeqsUpTo(_, _)
\* All sequences over S of length <= n.
SeqsUpTo(S, n) ==
    IF n = 0 THEN {<<>>}
    ELSE LET shorter == SeqsUpTo(S, n - 1)
         IN  shorter \cup {Append(s, c) : s \in {x \in shorter : Len(x) = n - 1}, c \in S}

Max(a, b) == IF a >= b THEN a ELSE b

Abs(a) == IF a < 0 THEN -a ELSE a

RECURSIVE SplitAcc(_, _, _, _)
SplitAcc(s, sep, k, cur) ==
    IF k > Len(s) THEN <<cur>>
    ELSE IF s[k] = sep THEN <<cur>> \o SplitAcc(s, sep, k + 1, <<>>)
    ELSE SplitAcc(s, sep, k + 1, Append(cur, s[k]))

\* String.prototype.split(sep) for a one-character separator: always at
\* least one piece, empty pieces kept.
Split(s, sep) == SplitAcc(s, sep, 1, <<>>)

RECURSIVE SplitLinesAcc(_, _, _)
SplitLinesAcc(s, k, cur) ==
    IF k > Len(s) THEN <<cur>>
    ELSE IF s[k] = CR /\ k < Len(s) /\ s[k + 1] = NL
         THEN <<cur>> \o SplitLinesAcc(s, k + 2, <<>>)
    ELSE IF s[k] = CR \/ s[k] = NL
         THEN <<cur>> \o SplitLinesAcc(s, k + 1, <<>>)
    ELSE SplitLinesAcc(s, k + 1, Append(cur, s[k]))

\* outputText.split(/(?:\r\n|\r|\n)/)
SplitLines(s) == SplitLinesAcc(s, 1, <<>>)

\* Whether a font string carries the bold weight token.
IsBold(font) == \E k \in 1..Len(font) : font[k] = "bold"

\* Advance width of one character on the host canvas, in the given font:
\* a narrow letter, a wide letter, a space; bold glyphs are one pixel wider;
\* control characters have no advance.
CharWidth(c, font) ==
    CASE c = "a" -> 2 + (IF IsBold(font) THEN 1 ELSE 0)
      [] c = "W" -> 3 + (IF IsBold(font) THEN 1 ELSE 0)
      [] c = SP  -> 1
      [] OTHER   -> 0

RECURSIVE SumWidths(_, _, _)
SumWidths(s, k, font) ==
    IF k > Len(s) THEN 0 ELSE CharWidth(s[k], font) + SumWidths(s, k + 1, font)

\* context.measureText(s).width with context.font = font
MeasureText(s, font) == SumWidths(s, 1, font)

\* ------------------------------------------------------------- word wrap

\* An iteration that passes over the empty words between adjacent spaces.
WrapWordSkipEmpty(st, word, j, W, font) ==
    IF word = <<>> THEN st
    ELSE IF MeasureText(word, font) + MeasureText(<<SP>>, font) > st.spaceLeft
    THEN [spaceLeft |-> W - MeasureText(word, font),
          result |-> st.result \o (IF j > 0 THEN <<NL>> ELSE <<>>) \o word \o <<SP>>]
    ELSE [spaceLeft |-> st.spaceLeft - MeasureText(word, font) - MeasureText(<<SP>>, font),
          result |-> st.result \o word \o <<SP>>]

\* One iteration of the inner loop of runWordWrap: state is the remaining
\* budget and the result built so far.
WrapWord(st, word, j, W, font) ==
    LET wordWidth == MeasureText(word, font)
        wordWidthWithSpace == wordWidth + MeasureText(<<SP>>, font)
    IN  IF wordWidthWithSpace > st.spaceLeft
        THEN [spaceLeft |-> W - wordWidth,
              result |-> st.result \o (IF j > 0 THEN <<NL>> ELSE <<>>) \o word \o <<SP>>]
        ELSE [spaceLeft |-> st.spaceLeft - wordWidthWithSpace,
              result |-> st.result \o word \o <<SP>>]

RECURSIVE WrapWords(_, _, _, _, _)
\* The inner loop, from word j (0-based) on.
WrapWords(st, words, j, W, font) ==
    IF j >= Len(words) THEN st
    ELSE WrapWords(WrapWord(st, words[j + 1], j, W, font), words, j + 1, W, font)

\* A source line that starts with the budget the last one left.
CarriedBudget(st, W) == st.spaceLeft

\* The budget a source line starts with.
LineBudget(st, W) == W

RECURSIVE WrapLines(_, _, _, _, _)
\* The outer loop, from source line i (0-based) on.
WrapLines(st, lines, i, W, font) ==
    IF i >= Len(lines) THEN st
    ELSE LET start == [spaceLeft |-> LineBudget(st, W), result |-> st.result]
             done == WrapWords(start, Split(lines[i + 1], SP), 0, W, font)
             next == [spaceLeft |-> done.spaceLeft,
                      result |-> IF i < Len(lines) - 1
                                 THEN done.result \o <<NL>> ELSE done.result]
         IN  WrapLines(next, lines, i + 1, W, font)

\* Phaser.Text.prototype.runWordWrap, with style.wordWrapWidth = W and
\* context.font = font.
runWordWrap(text, W, font) ==
    WrapLines([spaceLeft |-> W, result |-> <<>>], Split(text, NL), 0, W, font).result

\* ------------------------------------------------------------ font strings

UNDEF == "undefined"

\* An absent fontFamily (a family is a sequence of tokens; '' is <<>>).
NoFamily == <<UNDEF>>

StyleWords == {"normal", "italic", "oblique", "inherit"}
VariantWords == {"normal", "small-caps", "inherit"}
WeightWords == {"normal", "bold", "bolder", "lighter", "100", "200", "300", "400",
                "500", "600", "700", "800", "900", "inherit"}
NamedSizes == {"xx-small", "x-small", "small", "medium", "large", "x-large",
               "xx-large", "larger", "smaller", "0"}
\* Tokens of the model's universe matched by \d*(?:[.]\d*)?(?:%|[a-z]{2,5})
\* up to a word boundary: a number with a unit, or any 2-5 lowercase letters.
UnitSizes == {"8px", "12px", "20pt", "serif", "bold"}
SizeWords == NamedSizes \cup UnitSizes

\* Tokens of the model's universe whose first character is not a word
\* character (a quoted family): \b cannot hold before them.
NonWordStart(tok) == tok \in {"'Arial'"}

\* The font regex of fontToComponents fails exactly when the string offers no
\* word boundary after the leading whitespace.
Unparsable(font) == font = <<>> \/ NonWordStart(font[1])

\* The optional, greedy groups of the regex, over whole tokens: each takes the
\* token at the current place if it is one of its words.
Take(font, k, words) == k <= Len(font) /\ font[k] \in words

\* The place the next group starts at, after the group at place k.
After(font, k, words) == IF Take(font, k, words) THEN k + 1 ELSE k

\* What the group at place k captures: m[n] || fallback.
Captured(font, k, words, fallback) == IF Take(font, k, words) THEN font[k] ELSE fallback

\* The places the variant, weight, size and family groups start at (the
\* style group starts at 1).
VariantAt(font) == After(font, 1, StyleWords)
WeightAt(font) == After(font, VariantAt(font), VariantWords)
SizeAt(font) == After(font, WeightAt(font), WeightWords)
FamilyAt(font) == After(font, SizeAt(font), SizeWords)

fontToComponents(font) ==
    IF Unparsable(font)
    THEN [font |-> font, fontStyle |-> UNDEF, fontVariant |-> UNDEF,
          fontWeight |-> UNDEF, fontSize |-> UNDEF, fontFamily |-> NoFamily]
    ELSE [font |-> font,
          fontStyle |-> Captured(font, 1, StyleWords, "normal"),
          fontVariant |-> Captured(font, VariantAt(font), VariantWords, "normal"),
          fontWeight |-> Captured(font, WeightAt(font), WeightWords, "normal"),
          fontSize |-> Captured(font, SizeAt(font), SizeWords, "medium"),
          fontFamily |-> SubSeq(font, FamilyAt(font), Len(font))]

\* JavaScript truthiness of a token-valued field and of a family.
Truthy(v) == v # UNDEF /\ v # ""
FamilyTruthy(f) == f # NoFamily /\ f # <<>>

\* Every present component is written, the neutral ones too.
FontPartAlways(v, neutral) == IF Truthy(v) THEN <<v>> ELSE <<>>

\* The part a token-valued component contributes when it is not neutral.
FontPart(v, neutral) == IF Truthy(v) /\ v # neutral THEN <<v>> ELSE <<>>

\* parts.join(' ')
FontParts(components) ==
    FontPart(components.fontStyle, "normal")
    \o FontPart(components.fontVariant, "normal")
    \o FontPart(components.fontWeight, "normal")
    \o FontPart(components.fontSize, "medium")
    \o (IF FamilyTruthy(components.fontFamily) THEN components.fontFamily ELSE <<>>)

\* if (!parts.length) parts.push(components.font)
OrWholeFont(parts, components) == IF parts = <<>> THEN components.font ELSE parts

componentsToFont(components) == OrWholeFont(FontParts(components), components)


\* ------------------------------------------------------------ font metrics

\* The pixel size the host canvas renders a font string at (its own reading
\* of the size token; 10px when the string names none).
FontPx(font) ==
    IF \E k \in 1..Len(font) : font[k] = "8px" THEN 8
    ELSE IF \E k \in 1..Len(font) : font[k] = "12px" THEN 12
    ELSE IF \E k \in 1..Len(font) : font[k] = "20pt" THEN 26
    ELSE 10

\* context.measureText('|MEq').width, rounded up: four glyphs.
ProbeWidth(font) == 2 * FontPx(font) + (IF IsBold(font) THEN 4 ELSE 0)

\* The rows of the probe surface the glyphs leave ink on, drawn on the
\* alphabetic baseline: three quarters of the size above, one quarter below.
InkRows(font, baseline) ==
    (baseline - (3 * FontPx(font)) \div 4) .. (baseline + FontPx(font) \div 4 - 1)

\* Ascent scan: the first row from the top, before the baseline, with a
\* non-red pixel (the baseline when there is none).
ScanAscent(ink, baseline) ==
    CHOOSE i \in 0..baseline :
        /\ i = baseline \/ i \in ink
        /\ \A k \in 0..(i - 1) : k \notin ink

\* Descent scan: i runs from height down to baseline + 1 looking at row i - 1.
ScanDescent(ink, baseline, height) ==
    CHOOSE i \in baseline..height :
        /\ i = baseline \/ (i - 1) \in ink
        /\ \A k \in (i + 1)..height : (k - 1) \notin ink

\* The bias added to the scanned descent.
DescentBias == 6

\* Metrics whose fontSize leaves the descent out.
MetricsOfAscent(ascent, descent) ==
    [ascent |-> ascent, descent |-> descent, fontSize |-> ascent]

\* The probe of determineFontProperties (the cache-miss branch).
\* properties.fontSize = properties.ascent + properties.descent
Metrics(ascent, descent) ==
    [ascent |-> ascent, descent |-> descent, fontSize |-> ascent + descent]

\* The scan of the probe surface: width x height, text on the baseline.
ProbeScan(fontStyle, baseline, height, ink, rb) ==
    IF ~rb
    THEN Metrics(baseline, baseline + DescentBias)
    ELSE Metrics(baseline - ScanAscent(ink, baseline),
                 ScanDescent(ink, baseline, height) - baseline + DescentBias)

\* The probe surface for a measured width.
ProbeSurface(fontStyle, width, baseline, rb) ==
    ProbeScan(fontStyle, baseline, 2 * width, InkRows(fontStyle, baseline), rb)

\* The probe of determineFontProperties (the cache-miss branch).
ProbeFont(fontStyle, rb) ==
    ProbeSurface(fontStyle, ProbeWidth(fontStyle), (ProbeWidth(fontStyle) * 14) \div 10, rb)

\* Phaser.Text.prototype.determineFontProperties: the metrics and the cache
\* after the call.
\* Phaser.Text.fontPropertiesCache[fontStyle] = properties
Cached(fontStyle, c, properties) ==
    [properties |-> properties,
     cache |-> [f \in DOMAIN c \cup {fontStyle} |->
                   IF f = fontStyle THEN properties ELSE c[f]]]

\* A probe on every call.
ProbeAlways(fontStyle, c, rb) == Cached(fontStyle, c, ProbeFont(fontStyle, rb))

determineFontProperties(fontStyle, c, rb) ==
    IF fontStyle \in DOMAIN c
    THEN [properties |-> c[fontStyle], cache |-> c]
    ELSE Cached(fontStyle, c, ProbeFont(fontStyle, rb))

\* ------------------------------------------------------------------ tabs

NoTabs == [kind |-> "scalar", size |-> 0, stops |-> <<>>]
ScalarTabs(n) == [kind |-> "scalar", size |-> n, stops |-> <<>>]
ArrayTabs(stops) == [kind |-> "array", size |-> 0, stops |-> stops]

\* tabs === 0
TabsOff(tabs) == tabs.kind = "scalar" /\ tabs.size = 0

\* Math.ceil(a / b) for b > 0.
CeilDiv(a, b) == -((-a) \div b)

\* Phaser.Math.snapToCeil(input, gap) with start 0.
snapToCeil(input, gap) == IF gap = 0 THEN input ELSE gap * CeilDiv(input, gap)

\* tabs[c - 1] in the array branches (c >= 1).
TabEntry(tabs, c) == tabs.stops[c]

\* Segments that all start at the start of the line.
NoTabOffset(tabs, c) == 0

RECURSIVE TabOffset(_, _)
\* The running "tab" of the array branches when segment c (0-based) is
\* reached: tab += tabs[c - 1] for every c > 0.
TabOffset(tabs, c) == IF c = 0 THEN 0 ELSE TabOffset(tabs, c - 1) + TabEntry(tabs, c)

RECURSIVE ScalarTabWidth(_, _, _, _, _)
\* The scalar branch of the width loop of updateText.
ScalarTabWidth(segs, c, lineWidth, size, font) ==
    IF c >= Len(segs) THEN lineWidth
    ELSE ScalarTabWidth(segs, c + 1,
             snapToCeil(lineWidth + MeasureText(segs[c + 1], font), size), size, font)

\* padding: a Phaser.Point(), never written by Phaser.Text.
paddingX == 0
paddingY == 0

\* The width updateText computes for one line.
LineWidth(line, style) ==
    IF TabsOff(style.tabs)
    THEN MeasureText(line, style.font) + style.strokeThickness + paddingX
    ELSE LET segs == Split(line, TAB)
         IN  IF style.tabs.kind = "array"
             THEN TabOffset(style.tabs, Len(segs) - 1)
                  + MeasureText(segs[Len(segs)], style.font)
             ELSE ScalarTabWidth(segs, 0, paddingX + style.strokeThickness,
                                 style.tabs.size, style.font)

RECURSIVE MaxOf(_, _)
MaxOf(ws, k) == IF k > Len(ws) THEN 0 ELSE Max(ws[k], MaxOf(ws, k + 1))


\* ------------------------------------------------------------ compositing
\* Positions handed to fillText/strokeText are kept in half pixels (x2, y2):
\* strokeThickness / 2 and the centre alignment halve whole pixels.

\* A defined, truthy entry of a sparse override array.
Defined(map, n) == n \in DOMAIN map /\ Truthy(map[n])

ShadowOff == [x |-> 0, y |-> 0, color |-> "0", blur |-> 0]

\* The shadow of the style, whatever the flag of the pass.
shadowOfStyle(style, state) ==
    [x |-> style.shadowOffsetX, y |-> style.shadowOffsetY,
     color |-> style.shadowColor, blur |-> style.shadowBlur]

\* Phaser.Text.prototype.updateShadow: the context's shadow parameters after.
updateShadow(style, state) ==
    IF state
    THEN [x |-> style.shadowOffsetX, y |-> style.shadowOffsetY,
          color |-> style.shadowColor, blur |-> style.shadowBlur]
    ELSE ShadowOff

\* One fillText / strokeText call.
DrawCall(kind, str, x2, y2, paint, font, shadow, line, col, n) ==
    [kind |-> kind, str |-> str, x2 |-> x2, y2 |-> y2, paint |-> paint,
     font |-> font, shadow |-> shadow, line |-> line, col |-> col, n |-> n]

\* Whether the stroke pass runs.
StrokeOn(style) == Truthy(style.stroke) /\ style.strokeThickness # 0

\* The font updateLine sets on the context for the character at the counter.
CharFont(o, ctxFont, n) ==
    IF DOMAIN o.fontWeights # {} \/ DOMAIN o.fontStyles # {}
    THEN componentsToFont(
             [fontToComponents(ctxFont) EXCEPT
                 !.fontStyle = IF Defined(o.fontStyles, n) THEN o.fontStyles[n] ELSE @,
                 !.fontWeight = IF Defined(o.fontWeights, n) THEN o.fontWeights[n] ELSE @])
    ELSE ctxFont

\* The counter updateLine reads the override arrays at.
CharIndex(charCount) == charCount

\* The stroke colour the context holds for the character at the counter.
CharStroke(o, st, n) ==
    IF StrokeOn(o.style) /\ Defined(o.strokeColors, n)
    THEN o.strokeColors[n] ELSE st.strokeStyle

\* A fill colour that holds for the one character it is added at.
CharFillNoRun(o, st, n) ==
    IF Truthy(o.style.fill) /\ Defined(o.colors, n) THEN o.colors[n] ELSE o.style.fill

\* The fill colour the context holds for the character at the counter.
CharFill(o, st, n) ==
    IF Truthy(o.style.fill) /\ Defined(o.colors, n) THEN o.colors[n] ELSE st.fillStyle

\* The strokeText and fillText of one character, and the context after.
PaintChar(o, st, letter, i, y2, lineNo, n, font, strokeStyle, fillStyle) ==
    [font |-> font, strokeStyle |-> strokeStyle, fillStyle |-> fillStyle,
     x2 |-> st.x2 + 2 * MeasureText(letter, font),
     charCount |-> st.charCount + 1,
     drawn |-> st.drawn
               \o (IF StrokeOn(o.style)
                   THEN <<DrawCall("stroke", letter, st.x2, y2, strokeStyle, font,
                                   updateShadow(o.style, o.style.shadowStroke),
                                   lineNo, i, n)>>
                   ELSE <<>>)
               \o (IF Truthy(o.style.fill)
                   THEN <<DrawCall("fill", letter, st.x2, y2, fillStyle, font,
                                   updateShadow(o.style, o.style.shadowFill),
                                   lineNo, i, n)>>
                   ELSE <<>>)]

\* The character at the counter n.
CharAt(o, st, letter, i, y2, lineNo, n) ==
    PaintChar(o, st, letter, i, y2, lineNo, n,
              CharFont(o, st.font, n), CharStroke(o, st, n), CharFill(o, st, n))

\* The body of the loop of updateLine for the character at column i (0-based)
\* of the line: st holds the context, the pen, the counter and the calls made.
LineChar(o, st, line, i, y2, lineNo) ==
    CharAt(o, st, <<line[i + 1]>>, i, y2, lineNo, CharIndex(st.charCount))

RECURSIVE updateLineFrom(_, _, _, _, _, _)
updateLineFrom(o, st, line, i, y2, lineNo) ==
    IF i >= Len(line) THEN st
    ELSE updateLineFrom(o, LineChar(o, st, line, i, y2, lineNo), line, i + 1, y2, lineNo)

\* Phaser.Text.prototype.updateLine
updateLine(o, st, line, x2, y2, lineNo) ==
    updateLineFrom(o, [st EXCEPT !.x2 = x2], line, 0, y2, lineNo)

\* Where the array branch of renderTabLine draws segment c (0-based).
ArraySnap2(x2, tabs, c) == x2 + 2 * TabOffset(tabs, c)

RECURSIVE ScalarTabCalls(_, _, _, _, _, _, _, _, _)
\* The scalar branch of renderTabLine from segment c on.
ScalarTabCalls(segs, c, x2, y2, size, kind, paint, font, shadow) ==
    IF c >= Len(segs) THEN <<>>
    ELSE LET snap2 == 2 * size * CeilDiv(x2, 2 * size)
         IN  <<DrawCall(kind, segs[c + 1], snap2, y2, paint, font, shadow, 0, c, -1)>>
             \o ScalarTabCalls(segs, c + 1, snap2 + 2 * MeasureText(segs[c + 1], font),
                               y2, size, kind, paint, font, shadow)

\* Phaser.Text.prototype.renderTabLine: the calls it makes.
renderTabLine(line, x2, y2, kind, tabs, paint, font, shadow) ==
    LET segs == Split(line, TAB)
    IN  IF tabs.kind = "array"
        THEN [c \in 1..Len(segs) |->
                 DrawCall(kind, segs[c], ArraySnap2(x2, tabs, c - 1), y2, paint, font,
                          shadow, 0, c - 1, -1)]
        ELSE ScalarTabCalls(segs, 0, x2, y2, tabs.size, kind, paint, font, shadow)

\* One pass (stroke or fill) over a whole line when no override is set.
LinePass(line, x2, y2, kind, style, paint, flag) ==
    IF TabsOff(style.tabs)
    THEN <<DrawCall(kind, line, x2, y2, paint, style.font,
                    updateShadow(style, flag), 0, 0, -1)>>
    ELSE renderTabLine(line, x2, y2, kind, style.tabs, paint, style.font,
                       updateShadow(style, flag))

\* The call records of a pass, tagged with their line.
OnLine(calls, lineNo) == [k \in 1..Len(calls) |-> [calls[k] EXCEPT !.line = lineNo]]

\* Whether any override array has an entry.
HasOverrides(o) ==
    \/ DOMAIN o.colors # {}
    \/ DOMAIN o.strokeColors # {}
    \/ DOMAIN o.fontWeights # {}
    \/ DOMAIN o.fontStyles # {}

\* The body of the drawing loop of updateText for line i (0-based).
DrawLine(o, st, lines, i, lineWidths, maxLineWidth, lineHeight, lineSpacing, ascent) ==
    LET th == o.style.strokeThickness
        x2 == th + (IF o.style.align = "right"
                    THEN 2 * (maxLineWidth - lineWidths[i + 1])
                    ELSE IF o.style.align = "center"
                    THEN maxLineWidth - lineWidths[i + 1]
                    ELSE 0)
        y2 == th + 2 * (i * lineHeight) + 2 * ascent
              + (IF i > 0 THEN 2 * lineSpacing * i ELSE 0)
        line == lines[i + 1]
    IN  IF HasOverrides(o)
        THEN updateLine(o, st, line, x2, y2, i)
        ELSE [st EXCEPT !.drawn =
                 st.drawn
                 \o (IF StrokeOn(o.style)
                     THEN OnLine(LinePass(line, x2, y2, "stroke", o.style,
                                          st.strokeStyle, o.style.shadowStroke), i)
                     ELSE <<>>)
                 \o (IF Truthy(o.style.fill)
                     THEN OnLine(LinePass(line, x2, y2, "fill", o.style,
                                          st.fillStyle, o.style.shadowFill), i)
                     ELSE <<>>)]

RECURSIVE DrawLines(_, _, _, _, _, _, _, _, _)
DrawLines(o, st, lines, i, lineWidths, maxLineWidth, lineHeight, lineSpacing, ascent) ==
    IF i >= Len(lines) THEN st
    ELSE DrawLines(o, DrawLine(o, st, lines, i, lineWidths, maxLineWidth, lineHeight,
                               lineSpacing, ascent),
                   lines, i + 1, lineWidths, maxLineWidth, lineHeight, lineSpacing, ascent)


\* ------------------------------------------------------- the Text object

NoBounds == [set |-> FALSE, x |-> 0, y |-> 0, width |-> 0, height |-> 0]
Bounds(x, y, width, height) ==
    [set |-> TRUE, x |-> x, y |-> y, width |-> width, height |-> height]

\* Twice Phaser.Rectangle's halfWidth and halfHeight, half of the width and
\* of the height.
halfWidth2(b) == b.width
halfHeight2(b) == b.height

\* updateTexture without the alignment in the text bounds.
updateTextureUnaligned(o) ==
    [o EXCEPT !.texture = [width |-> o.canvas.width, height |-> o.canvas.height],
              !.renderable = (o.canvas.width # 0 /\ o.canvas.height # 0)]

\* A surface taken for drawable by its height alone.
HasHeight(w, h) == h # 0

\* this.renderable = (w !== 0 && h !== 0)
HasArea(w, h) == w # 0 /\ h # 0

\* Phaser.Text.prototype.updateTexture: the texture, the pivot (in half
\* pixels) and renderable follow the canvas.
updateTexture(o) ==
    LET w == o.canvas.width
        h == o.canvas.height
        b == o.textBounds
        x2 == 2 * b.x + (IF o.style.boundsAlignH = "right" THEN 2 * (b.width - w)
                         ELSE IF o.style.boundsAlignH = "center" THEN halfWidth2(b) - w
                         ELSE 0)
        y2 == 2 * b.y + (IF o.style.boundsAlignV = "bottom" THEN 2 * (b.height - h)
                         ELSE IF o.style.boundsAlignV = "middle" THEN halfHeight2(b) - h
                         ELSE 0)
    IN  [o EXCEPT !.texture = [width |-> w, height |-> h],
                  !.pivot2 = IF b.set THEN [x |-> -x2, y |-> -y2] ELSE @,
                  !.renderable = HasArea(w, h)]

\* The text the layout works on: wrapped when style.wordWrap is set.
OutputText(o) ==
    IF o.style.wordWrap
    THEN runWordWrap(o.text, o.style.wordWrapWidth, o.style.font)
    ELSE o.text

\* The line spacing taken as it is.
RawSpacing(lineSpacing, lineHeight) == lineSpacing

\* The line spacing updateText uses: a negative one is clamped to the line
\* height.
ClampSpacing(lineSpacing, lineHeight) ==
    IF lineSpacing < 0 /\ Abs(lineSpacing) > lineHeight THEN -lineHeight ELSE lineSpacing

\* The size updateText gives the canvas.
\* The widths of the lines.
LineWidths(lines, style) == [k \in 1..Len(lines) |-> LineWidth(lines[k], style)]

\* The height of a line.
LineHeight(o, fontProperties) ==
    fontProperties.fontSize + o.style.strokeThickness + paddingY

\* A canvas sized without the resolution.
SizedUnscaled(o, lines, maxLineWidth, lineHeight, lineSpacing) ==
    [width |-> maxLineWidth,
     height |-> lineHeight * Len(lines) + lineSpacing * (Len(lines) - 1)]

\* canvas.width and canvas.height as updateText sets them.
Sized(o, lines, maxLineWidth, lineHeight, lineSpacing) ==
    [width |-> maxLineWidth * o.res,
     height |-> (lineHeight * Len(lines) + lineSpacing * (Len(lines) - 1)) * o.res]

\* The size of the canvas for the lines and the line height.
CanvasFor(o, lines, lineHeight) ==
    Sized(o, lines, MaxOf(LineWidths(lines, o.style), 1), lineHeight,
          ClampSpacing(o.lineSpacing, lineHeight))

\* The size updateText gives the canvas.
CanvasSize(o, fontProperties) ==
    CanvasFor(o, SplitLines(OutputText(o)), LineHeight(o, fontProperties))

\* The context before the drawing loop.
FreshContext(o) ==
    [font |-> o.style.font, strokeStyle |-> o.style.stroke,
     fillStyle |-> o.style.fill, x2 |-> 0, charCount |-> 0, drawn |-> <<>>]

\* The end of updateText: the canvas sized, the lines drawn (st), the
\* texture synced.
Painted(o, size, st) ==
    updateTexture([o EXCEPT !.canvas = size, !.charCount = st.charCount,
                            !.drawn = st.drawn])

\* The drawing loop over the measured lines.
Layout(o, lines, lineWidths, fontProperties, lineHeight) ==
    Painted(o, CanvasFor(o, lines, lineHeight),
            DrawLines(o, FreshContext(o), lines, 0, lineWidths, MaxOf(lineWidths, 1),
                      lineHeight, ClampSpacing(o.lineSpacing, lineHeight),
                      fontProperties.ascent))

\* The layout for the metrics found.
LayoutWith(o, lines, found) ==
    [o |-> Layout(o, lines, LineWidths(lines, o.style), found.properties,
                  LineHeight(o, found.properties)),
     cache |-> found.cache]

\* Phaser.Text.prototype.updateText: the object and the metrics cache after.
updateText(o, c, rb) ==
    LayoutWith(o, SplitLines(OutputText(o)),
               determineFontProperties(o.style.font, c, rb))

\* 'bold 20pt Arial'
DefaultFont == <<"bold", "20pt", "Arial">>

\* The default of style.wordWrapWidth.
DefaultWrapWidth == 100

\* A style argument with no property given (a number or boolean not given
\* is its falsy value, which setStyle treats alike).
NoStyle ==
    [font |-> <<>>, fontStyle |-> UNDEF, fontVariant |-> UNDEF, fontWeight |-> UNDEF,
     fontSize |-> UNDEF, backgroundColor |-> NULL, fill |-> "", align |-> "",
     boundsAlignH |-> "", boundsAlignV |-> "", stroke |-> "", strokeThickness |-> 0,
     wordWrap |-> FALSE, wordWrapWidth |-> 0, shadowOffsetX |-> 0, shadowOffsetY |-> 0,
     shadowColor |-> "", shadowBlur |-> 0, shadowStroke |-> FALSE, shadowFill |-> FALSE,
     tabs |-> NoTabs]

Or(v, default) == IF Truthy(v) THEN v ELSE default

\* The dirty flag setStyle leaves.
StyleDirty == TRUE

\* Phaser.Text.prototype.setStyle
\* newStyle with its defaults filled in and its font rebuilt from the
\* components.
NewStyle(s, components) ==
    [font |-> componentsToFont(components),
     backgroundColor |-> IF Truthy(s.backgroundColor) /\ s.backgroundColor # NULL
                         THEN s.backgroundColor ELSE NULL,
     fill |-> Or(s.fill, "black"),
     align |-> Or(s.align, "left"),
     boundsAlignH |-> Or(s.boundsAlignH, "left"),
     boundsAlignV |-> Or(s.boundsAlignV, "top"),
     stroke |-> Or(s.stroke, "black"),
     strokeThickness |-> s.strokeThickness,
     wordWrap |-> s.wordWrap,
     wordWrapWidth |-> IF s.wordWrapWidth = 0 THEN DefaultWrapWidth ELSE s.wordWrapWidth,
     shadowOffsetX |-> s.shadowOffsetX,
     shadowOffsetY |-> s.shadowOffsetY,
     shadowColor |-> Or(s.shadowColor, "rgba(0,0,0,0)"),
     shadowBlur |-> s.shadowBlur,
     shadowStroke |-> s.shadowStroke,
     shadowFill |-> s.shadowFill,
     tabs |-> s.tabs]

\* The components of newStyle.font, overridden by the component properties
\* the style argument gives.
StyleComponents(s) ==
    [fontToComponents(IF s.font = <<>> THEN DefaultFont ELSE s.font) EXCEPT
        !.fontStyle = Or(s.fontStyle, @),
        !.fontVariant = Or(s.fontVariant, @),
        !.fontWeight = Or(s.fontWeight, @),
        !.fontSize = Or(s.fontSize, @)]

\* The end of setStyle: the components and the style stored, dirty set.
Styled(o, s, components) ==
    [o EXCEPT !.fontComponents = components, !.style = NewStyle(s, components),
              !.dirty = StyleDirty]

\* Phaser.Text.prototype.setStyle
setStyle(o, s) == Styled(o, s, StyleComponents(s))

\* The canvas PIXI.CanvasPool.create hands out: a fresh HTML canvas.
PoolCanvas == [width |-> 300, height |-> 150]

\* The constructor Phaser.Text(game, x, y, text, style), with
\* game.renderer.resolution = res.
NoComponents ==
    [font |-> <<>>, fontStyle |-> UNDEF, fontVariant |-> UNDEF,
     fontWeight |-> UNDEF, fontSize |-> UNDEF, fontFamily |-> NoFamily]

\* The fields the constructor sets before it calls setStyle.
Fields(text, res) ==
    [text |-> text, style |-> NoStyle, fontComponents |-> NoComponents,
     colors |-> <<>>, strokeColors |-> <<>>, fontStyles |-> <<>>,
     fontWeights |-> <<>>, res |-> res, lineSpacing |-> 0,
     textBounds |-> NoBounds, canvas |-> PoolCanvas, texture |-> PoolCanvas,
     pivot2 |-> [x |-> 0, y |-> 0], renderable |-> TRUE, dirty |-> FALSE,
     charCount |-> 0, drawn |-> <<>>]

\* if (text !== '') this.updateText()
FirstLayout(o, c, rb) ==
    IF o.text # <<>> THEN updateText(o, c, rb) ELSE [o |-> o, cache |-> c]

NewText(text, s, res, c, rb) == FirstLayout(setStyle(Fields(text, res), s), c, rb)


\* ------------------------------------------------ operations of the object

\* The 'text' setter.
textSetter(o, value) ==
    IF value # o.text THEN [o EXCEPT !.text = value, !.dirty = TRUE] ELSE o

\* Phaser.Text.prototype.setText
setText(o, text) == [textSetter(o, text) EXCEPT !.dirty = TRUE]

RECURSIVE Join(_, _, _)
\* Array.prototype.join(sep) from item k on.
Join(items, sep, k) ==
    IF k > Len(items) THEN <<>>
    ELSE items[k] \o (IF k < Len(items) THEN <<sep>> ELSE <<>>) \o Join(items, sep, k + 1)

RECURSIVE JoinRows(_, _)
\* The nested branch of parseList from row k on.
JoinRows(rows, k) ==
    IF k > Len(rows) THEN <<>>
    ELSE Join(rows[k], TAB, 1) \o (IF k < Len(rows) THEN <<NL>> ELSE <<>>)
         \o JoinRows(rows, k + 1)

\* parseList without the Array.isArray test: a non-list joins to ''.
parseListUnchecked(o, list) ==
    [textSetter(o, IF list.kind = "nested" THEN JoinRows(list.rows, 1)
                   ELSE Join(list.items, TAB, 1))
     EXCEPT !.dirty = TRUE]

\* Phaser.Text.prototype.parseList; a list is "none" (not an array), "flat"
\* (an array of strings) or "nested" (an array of arrays of strings).
parseList(o, list) ==
    IF list.kind = "none" THEN o
    ELSE LET s == IF list.kind = "nested" THEN JoinRows(list.rows, 1)
                  ELSE Join(list.items, TAB, 1)
         IN  [textSetter(o, s) EXCEPT !.dirty = TRUE]

\* Phaser.Text.prototype.setShadow
setShadow(o, x, y, color, blur, shadowStroke, shadowFill) ==
    [o EXCEPT !.style.shadowOffsetX = x, !.style.shadowOffsetY = y,
              !.style.shadowColor = color, !.style.shadowBlur = blur,
              !.style.shadowStroke = shadowStroke, !.style.shadowFill = shadowFill,
              !.dirty = TRUE]

\* A sparse array after a[position] = value.
Put(a, position, value) ==
    [i \in DOMAIN a \cup {position} |-> IF i = position THEN value ELSE a[i]]

\* The dirty flag the four add* methods leave.
AddDirty == TRUE

addColor(o, color, position) ==
    [o EXCEPT !.colors = Put(@, position, color), !.dirty = AddDirty]

addStrokeColor(o, color, position) ==
    [o EXCEPT !.strokeColors = Put(@, position, color), !.dirty = AddDirty]

addFontStyle(o, style, position) ==
    [o EXCEPT !.fontStyles = Put(@, position, style), !.dirty = AddDirty]

addFontWeight(o, weight, position) ==
    [o EXCEPT !.fontWeights = Put(@, position, weight), !.dirty = AddDirty]

clearColors(o) == [o EXCEPT !.colors = <<>>, !.strokeColors = <<>>, !.dirty = TRUE]

clearFontValues(o) == [o EXCEPT !.fontStyles = <<>>, !.fontWeights = <<>>, !.dirty = TRUE]

\* A setTextBounds that marks the object dirty.
BoundsMarked(o) == TRUE

\* A setTextBounds that, having synced the texture, clears dirty.
BoundsCleared(o) == FALSE

\* The dirty flag setTextBounds leaves: it does not write it.
BoundsDirty(o) == o.dirty

\* Phaser.Text.prototype.setTextBounds; b is NoBounds for a call without
\* arguments.
setTextBounds(o, b) ==
    [updateTexture(IF ~b.set THEN [o EXCEPT !.textBounds = NoBounds]
                   ELSE [o EXCEPT !.textBounds = b,
                                  !.style.wordWrapWidth =
                                      IF @ > b.width THEN b.width ELSE @])
     EXCEPT !.dirty = BoundsDirty(o)]

\* The components changed but style.font left as it was.
keepFont(o, components) == o

\* Phaser.Text.prototype.updateFont
updateFont(o, components) ==
    LET font == componentsToFont(components)
    IN  IF o.style.font # font
        THEN [o EXCEPT !.style.font = font, !.dirty = TRUE]
        ELSE o

\* The 'cssFont' setter.
cssFontSetter(o, value) ==
    LET components == fontToComponents(IF value = <<>> THEN DefaultFont ELSE value)
    IN  updateFont([o EXCEPT !.fontComponents = components], components)

\* The families of the model's universe the 'font' setter leaves unquoted.
GenericFamily(value) == value \in {<<"serif">>, <<"'Arial'">>}

\* The 'font' setter: an absent family is Arial, a family that looks
\* unquoted is quoted.
fontSetter(o, value) ==
    LET v == IF value = <<>> THEN <<"Arial">> ELSE value
        family == IF GenericFamily(v) THEN v ELSE <<"'Arial'">>
        components == [o.fontComponents EXCEPT !.fontFamily = family]
    IN  updateFont([o EXCEPT !.fontComponents = components], components)

\* The 'fontSize', 'fontWeight', 'fontStyle' and 'fontVariant' setters: key
\* names the component, default the value an empty one stands for.
fontComponentSetter(o, key, value, default) ==
    LET components == [o.fontComponents EXCEPT ![key] = Or(value, default)]
    IN  updateFont([o EXCEPT !.fontComponents = components], components)

\* The setters of the plain style properties (fill, align, tabs, boundsAlignH,
\* boundsAlignV, stroke, strokeThickness, wordWrap, wordWrapWidth,
\* shadowOffsetX, shadowOffsetY, shadowColor, shadowBlur, shadowStroke,
\* shadowFill): value !== this.style[key]; an array is never identical to
\* the stored one.
stylePropertySetter(o, key, value) ==
    IF key = "tabs" /\ value.kind = "array"
    THEN [o EXCEPT !.style.tabs = value, !.dirty = TRUE]
    ELSE IF value # o.style[key]
    THEN [o EXCEPT !.style[key] = value, !.dirty = TRUE]
    ELSE o

\* The 'resolution' setter.
resolutionSetter(o, value) ==
    IF value # o.res THEN [o EXCEPT !.res = value, !.dirty = TRUE] ELSE o

\* The 'lineSpacing' setter.
lineSpacingSetter(o, value) ==
    IF value # o.lineSpacing THEN [o EXCEPT !.lineSpacing = value, !.dirty = TRUE] ELSE o

\* The 'fontSize', 'fontWeight', 'fontStyle' and 'fontVariant' getters (the
\* size as stored: the getter's parseInt is one-to-one on the sizes used).
fontComponentGetter(o, key) ==
    IF key = "fontSize" THEN o.fontComponents.fontSize
    ELSE Or(o.fontComponents[key], "normal")

\* The 'font' getter.
fontGetter(o) == o.fontComponents.fontFamily

\* The 'cssFont' getter.
cssFontGetter(o) == componentsToFont(o.fontComponents)

\* A render trigger that lays the text out every time.
AlwaysUpdate(o) == TRUE

\* Whether a render trigger runs updateText.
NeedsUpdate(o) == o.dirty

\* The dirty flag a render trigger leaves after updateText.
RenderDirty == FALSE

\* The shared opening of the width getter, the height getter, getBounds,
\* _renderWebGL and _renderCanvas: if (this.dirty) { updateText(); dirty = false }
\* updateText ran (r is what it left): this.dirty = false
Cleaned(r) == [o |-> [r.o EXCEPT !.dirty = RenderDirty], cache |-> r.cache, ran |-> TRUE]

renderPass(o, c, rb) ==
    IF NeedsUpdate(o)
    THEN Cleaned(updateText(o, c, rb))
    ELSE [o |-> o, cache |-> c, ran |-> FALSE]


\* ------------------------------------------------------------ the object
\* Spec: one Text object, constructed from a text and a style, then driven
\* by its public operations.

\* "", "aa aa", "a\tW"
TextInputs == {<<>>, <<"a", "a", SP, "a", "a">>, <<"a", TAB, "W">>}

StyleInputs ==
    {NoStyle,
     [NoStyle EXCEPT !.font = <<"bold">>],
     [NoStyle EXCEPT !.font = <<"8px", "Arial">>, !.wordWrap = TRUE, !.wordWrapWidth = 20,
                     !.boundsAlignH = "right", !.boundsAlignV = "middle"],
     [NoStyle EXCEPT !.tabs = ArrayTabs(<<3, 5>>), !.strokeThickness = 2,
                     !.shadowStroke = TRUE,
                     !.boundsAlignH = "center", !.boundsAlignV = "bottom"]}

ListInputs ==
    {[kind |-> "none", items |-> <<>>, rows |-> <<>>],
     [kind |-> "flat", items |-> <<<<"a">>, <<"W">>>>, rows |-> <<>>],
     [kind |-> "nested", items |-> <<>>, rows |-> <<<<<<"a">>, <<"W">>>>, <<<<"a">>>>>>]}

BoundsInputs == {NoBounds, Bounds(0, 0, 8, 40), Bounds(2, 2, 200, 200)}

ColorInputs == {"red", "blue"}

PositionInputs == {0, 1, 2}

StyleProps ==
    {"fill", "align", "tabs", "boundsAlignH", "boundsAlignV", "stroke", "strokeThickness",
     "wordWrap", "wordWrapWidth", "shadowOffsetX", "shadowOffsetY", "shadowColor",
     "shadowBlur", "shadowStroke", "shadowFill"}

PropInputs(key) ==
    CASE key = "fill" -> {"red", ""}
      [] key = "align" -> {"center"}
      [] key = "tabs" -> {ScalarTabs(4), ArrayTabs(<<3, 5>>)}
      [] key = "boundsAlignH" -> {"right"}
      [] key = "boundsAlignV" -> {"middle"}
      [] key = "stroke" -> {"blue"}
      [] key = "strokeThickness" -> {0, 2}
      [] key = "wordWrap" -> BOOLEAN
      [] key = "wordWrapWidth" -> {DefaultWrapWidth, 6}
      [] key = "shadowOffsetX" -> {1}
      [] key = "shadowOffsetY" -> {1}
      [] key = "shadowColor" -> {"grey"}
      [] key = "shadowBlur" -> {1}
      [] key = "shadowStroke" -> BOOLEAN
      [] key = "shadowFill" -> {TRUE}

FontComponentInputs(key) ==
    CASE key = "fontSize" -> {"8px", ""}
      [] key = "fontWeight" -> {"normal", "bold"}
      [] key = "fontStyle" -> {"normal", "italic"}
      [] key = "fontVariant" -> {"normal", "small-caps"}

FontProps == {"fontSize", "fontWeight", "fontStyle", "fontVariant"}

FontComponentDefault(key) == IF key = "fontSize" THEN "0" ELSE "normal"

CssFontInputs == {<<>>, <<"bold">>, <<"'Arial'">>}

FamilyInputs == {<<>>, <<"serif">>}

\* No call of runWordWrap on its own.
NoCall == [text |-> <<>>, width |-> 0, font |-> <<>>]
NoReturn == [called |-> FALSE, result |-> <<>>]

Init ==
    /\ readback = TRUE
    /\ \E text \in TextInputs, s \in StyleInputs :
          \E r \in {NewText(text, s, 1, <<>>, TRUE)} :
              /\ t = r.o
              /\ cache = r.cache
              /\ ranUpdate = (text # <<>>)
    /\ op = "new"
    /\ left = MaxOps
    /\ wrapIn = NoCall
    /\ wrapOut = NoReturn

\* A mutating operation: the object becomes o.
Mutate(name, o) ==
    /\ left > 0
    /\ t' = o
    /\ op' = name
    /\ ranUpdate' = FALSE
    /\ left' = left - 1
    /\ UNCHANGED <<cache, readback, wrapIn, wrapOut>>

\* A render trigger; the five share their opening and differ in the Sprite
\* method they go on to call, so op records them alike.
Render ==
    \E r \in {renderPass(t, cache, readback)} :
        /\ t' = r.o
        /\ cache' = r.cache
        /\ op' = "render"
        /\ ranUpdate' = r.ran
        /\ UNCHANGED <<left, readback, wrapIn, wrapOut>>

SetText == \E v \in TextInputs : Mutate("setText", setText(t, v))

TextSetter == \E v \in TextInputs : Mutate("text", textSetter(t, v))

\* op tells a call with a list from a call with anything else.
ParseList ==
    \E l \in ListInputs :
        Mutate(IF l.kind = "none" THEN "parseList(other)" ELSE "parseList", parseList(t, l))

SetStyle == \E s \in StyleInputs : Mutate("setStyle", setStyle(t, s))

SetShadow ==
    \/ Mutate("setShadow", setShadow(t, 0, 0, "rgba(0, 0, 0, 1)", 0, TRUE, TRUE))
    \/ Mutate("setShadow", setShadow(t, 1, 1, "grey", 1, TRUE, FALSE))

StylePropertySetter ==
    \E key \in StyleProps : \E v \in PropInputs(key) :
        Mutate(key, stylePropertySetter(t, key, v))

FontComponentSetter ==
    \E key \in FontProps : \E v \in FontComponentInputs(key) :
        Mutate(key, fontComponentSetter(t, key, v, FontComponentDefault(key)))

CssFontSetter == \E v \in CssFontInputs : Mutate("cssFont", cssFontSetter(t, v))

FontSetter == \E v \in FamilyInputs : Mutate("font", fontSetter(t, v))

LineSpacingSetter == \E v \in {0, -100} : Mutate("lineSpacing", lineSpacingSetter(t, v))

ResolutionSetter == \E v \in {1, 2} : Mutate("resolution", resolutionSetter(t, v))

AddColor ==
    \E c \in ColorInputs, p \in PositionInputs : Mutate("addColor", addColor(t, c, p))

AddStrokeColor ==
    \E c \in ColorInputs, p \in PositionInputs :
        Mutate("addStrokeColor", addStrokeColor(t, c, p))

AddFontStyle ==
    \E p \in PositionInputs : Mutate("addFontStyle", addFontStyle(t, "italic", p))

AddFontWeight ==
    \E p \in PositionInputs : Mutate("addFontWeight", addFontWeight(t, "bold", p))

ClearColors == Mutate("clearColors", clearColors(t))

ClearFontValues == Mutate("clearFontValues", clearFontValues(t))

SetTextBounds == \E b \in BoundsInputs : Mutate("setTextBounds", setTextBounds(t, b))

\* The 'width' getter.
WidthGetter == Render

\* The 'height' getter.
HeightGetter == Render

\* Phaser.Text.prototype.getBounds
GetBounds == Render

\* Phaser.Text.prototype._renderWebGL
RenderWebGL == Render

\* Phaser.Text.prototype._renderCanvas
RenderCanvas == Render

Next ==
    \/ SetText
    \/ TextSetter
    \/ ParseList
    \/ SetStyle
    \/ SetShadow
    \/ StylePropertySetter
    \/ FontComponentSetter
    \/ CssFontSetter
    \/ FontSetter
    \/ LineSpacingSetter
    \/ ResolutionSetter
    \/ AddColor
    \/ AddStrokeColor
    \/ AddFontStyle
    \/ AddFontWeight
    \/ ClearColors
    \/ ClearFontValues
    \/ SetTextBounds
    \/ WidthGetter
    \/ HeightGetter
    \/ GetBounds
    \/ RenderWebGL
    \/ RenderCanvas

Spec == Init /\ [][Next]_vars

\* ------------------------------------------------------- the word wrap
\* SpecWrap: runWordWrap on its own, over every text of the alphabet up to
\* MaxLen characters and every width budget up to MaxWidth.

WrapAlphabet == {"a", "W", SP, NL}

WrapFonts == {<<"8px", "Arial">>, DefaultFont}

InitWrap ==
    /\ readback = TRUE
    /\ t = Fields(<<>>, 1)
    /\ cache = <<>>
    /\ op = "new"
    /\ ranUpdate = FALSE
    /\ left = 0
    /\ \E text \in SeqsUpTo(WrapAlphabet, MaxLen), W \in 0..MaxWidth, font \in WrapFonts :
          wrapIn = [text |-> text, width |-> W, font |-> font]
    /\ wrapOut = NoReturn

\* The call returns.
RunWordWrap ==
    /\ ~wrapOut.called
    /\ wrapOut' = [called |-> TRUE,
                   result |-> runWordWrap(wrapIn.text, wrapIn.width, wrapIn.font)]
    /\ UNCHANGED <<t, cache, op, ranUpdate, left, readback, wrapIn>>

NextWrap == RunWordWrap

SpecWrap == InitWrap /\ [][NextWrap]_vars

\* ------------------------------------------------------- the compositor
\* SpecDraw: a Text object with a short text, given overrides and tab stops,
\* then rendered; t.drawn holds the fillText / strokeText calls of the last
\* layout pass.

\* "aWa", "a\na", "a\ta\tW", "a a"
DrawTexts ==
    {<<"a", "W", "a">>, <<"a", NL, "a">>, <<"a", TAB, "a", TAB, "W">>, <<"a", SP, "a">>}

DrawStyles ==
    {[NoStyle EXCEPT !.font = <<"8px", "Arial">>],
     [NoStyle EXCEPT !.font = <<"8px", "Arial">>, !.wordWrap = TRUE, !.wordWrapWidth = 3],
     [NoStyle EXCEPT !.font = <<"8px", "Arial">>, !.tabs = ArrayTabs(<<30, 80>>)],
     [NoStyle EXCEPT !.font = <<"8px", "Arial">>, !.tabs = ScalarTabs(4),
                     !.strokeThickness = 1, !.align = "right"]}

InitDraw ==
    /\ readback = TRUE
    /\ \E text \in DrawTexts, s \in DrawStyles :
          \E r \in {NewText(text, s, 1, <<>>, TRUE)} :
              /\ t = r.o
              /\ cache = r.cache
    /\ ranUpdate = TRUE
    /\ op = "new"
    /\ left = MaxAdds
    /\ wrapIn = NoCall
    /\ wrapOut = NoReturn

NextDraw ==
    \/ AddColor
    \/ AddStrokeColor
    \/ AddFontWeight
    \/ ClearColors
    \/ RenderCanvas

SpecDraw == InitDraw /\ [][NextDraw]_vars

\* ------------------------------------------------- style, font and bounds

\* Sequences of style, font and text bounds operations on one text.
InitStyle ==
    /\ readback = TRUE
    /\ \E text \in {<<"a", "a", SP, "a", "a">>, <<"a", "a", NL, "a", "a">>,
                     <<"a", CR, NL, "a", CR, "W">>} :
          \E r \in {NewText(text, NoStyle, 1, <<>>, TRUE)} :
              /\ t = r.o
              /\ cache = r.cache
    /\ ranUpdate = TRUE
    /\ op = "new"
    /\ left = MaxCalls
    /\ wrapIn = NoCall
    /\ wrapOut = NoReturn

NextStyle ==
    \/ SetStyle
    \/ StylePropertySetter
    \/ CssFontSetter
    \/ FontSetter
    \/ FontComponentSetter
    \/ SetTextBounds
    \/ LineSpacingSetter
    \/ ResolutionSetter
    \/ RenderWebGL

SpecStyle == InitStyle /\ [][NextStyle]_vars

\* ------------------------------------------------------ the metrics cache

\* Text objects made and destroyed one after the other, all on the one
\* Phaser.Text.fontPropertiesCache; t is the latest of them.
InitCache ==
    /\ readback \in BOOLEAN
    /\ \E s \in StyleInputs :
          \E r \in {NewText(<<"a">>, s, 1, <<>>, readback)} :
              /\ t = r.o
              /\ cache = r.cache
    /\ ranUpdate = TRUE
    /\ op = "new"
    /\ left = MaxCalls
    /\ wrapIn = NoCall
    /\ wrapOut = NoReturn

\* new Phaser.Text: a further object, laid out against the shared cache.
Construct ==
    /\ left > 0
    /\ \E text \in TextInputs, s \in StyleInputs :
          \E r \in {NewText(text, s, 1, cache, readback)} :
              /\ t' = r.o
              /\ cache' = r.cache
              /\ ranUpdate' = (text # <<>>)
    /\ op' = "new"
    /\ left' = left - 1
    /\ UNCHANGED <<readback, wrapIn, wrapOut>>

\* Phaser.Text.prototype.destroy: the texture and the pooled canvas are
\* released; the cache is not touched.
Destroy == Mutate("destroy", t)

\* getImageData starts or stops answering (Text.js 1246).
ReadbackChanges ==
    /\ left > 0
    /\ readback' = ~readback
    /\ left' = left - 1
    /\ op' = "getImageData"
    /\ ranUpdate' = FALSE
    /\ UNCHANGED <<t, cache, wrapIn, wrapOut>>

NextCache ==
    \/ Construct
    \/ Destroy
    \/ ReadbackChanges
    \/ SetStyle
    \/ CssFontSetter
    \/ FontComponentSetter
    \/ RenderCanvas

SpecCache == InitCache /\ [][NextCache]_vars

\* ------------------------------------------------- the font round trip

\* Well-formed font shorthands: [style] [variant] [weight] size family.
FontStrings ==
    {style \o variant \o weight \o <<size>> \o family :
        style \in {<<>>, <<"italic">>, <<"normal">>},
        variant \in {<<>>, <<"small-caps">>},
        weight \in {<<>>, <<"bold">>},
        size \in {"medium", "12px"},
        family \in {<<"serif">>, <<"Arial">>, <<"'Arial'">>}}

\* A text constructed with each of the shorthands as its style.font.
InitFont ==
    /\ readback = TRUE
    /\ \E font \in FontStrings :
          \E r \in {NewText(<<"a">>, [NoStyle EXCEPT !.font = font], 1, <<>>, TRUE)} :
              /\ t = r.o
              /\ cache = r.cache
    /\ ranUpdate = TRUE
    /\ op = "new"
    /\ left = MaxOps
    /\ wrapIn = NoCall
    /\ wrapOut = NoReturn

\* text.cssFont = text.cssFont: the components are serialized by the getter
\* and parsed again by the setter.
CssFontReassign == Mutate("cssFont", cssFontSetter(t, cssFontGetter(t)))

NextFont ==
    \/ CssFontReassign
    \/ RenderCanvas

SpecFont == InitFont /\ [][NextFont]_vars

\* ------------------------------------------------------------ properties

\* The step set the property its setter names to a value it did not have, or
\* ran a method that mutates the text, the style or the override arrays.
Mutated ==
    \/ op' \in {"setText", "parseList", "setStyle", "setShadow", "addColor",
                "addStrokeColor", "addFontStyle", "addFontWeight", "clearColors",
                "clearFontValues"}
    \/ op' = "text" /\ t'.text # t.text
    \/ op' \in StyleProps /\ t'.style[op'] # t.style[op']
    \/ op' \in FontProps /\ fontComponentGetter(t', op') # fontComponentGetter(t, op')
    \/ op' = "font" /\ fontGetter(t') # fontGetter(t)
    \/ op' = "cssFont" /\ cssFontGetter(t') # cssFontGetter(t)
    \/ op' = "lineSpacing" /\ t'.lineSpacing # t.lineSpacing
    \/ op' = "resolution" /\ t'.res # t.res

\* C1: after every public mutation of the text, the style, the override
\* arrays or the resolution, dirty is true when the operation returns.
C1_DirtyAfterMutation == [][Mutated => t'.dirty]_vars

\* C2 as stated: after setTextBounds, dirty is true whatever it was before.
C2_DirtyAfterSetTextBounds == [][op' = "setTextBounds" => t'.dirty]_vars

\* C2, amended: setTextBounds leaves dirty as it found it, and syncs the
\* texture to the canvas on the spot.
C2_SetTextBoundsKeepsDirty ==
    [][op' = "setTextBounds" =>
          /\ t'.dirty = t.dirty
          /\ t'.texture = t.canvas
          /\ t'.canvas = t.canvas]_vars

\* A clean object was given text bounds, and is still clean.
C2_Witness == op = "setTextBounds" /\ ~t.dirty /\ t.textBounds.set

\* C3: dirty goes from true to false only in a render trigger, in which
\* updateText has just run; the constructor leaves it true.
C3_ClearedOnlyByRender ==
    /\ t.dirty
    /\ [][(t.dirty /\ ~t'.dirty) => (op' = "render" /\ ranUpdate')]_vars

\* A render trigger ran updateText and cleared dirty.
C3_Witness == op = "render" /\ ranUpdate /\ ~t.dirty

\* The metrics of the current font, as a layout pass would find them.
CurrentMetrics == determineFontProperties(t.style.font, cache, readback).properties

\* C4: whenever dirty is false, the canvas and the texture have the size a
\* fresh layout of the current text, style, line spacing and resolution gives.
C4_CleanMeansFreshLayout ==
    ~t.dirty =>
        /\ t.canvas = CanvasSize(t, CurrentMetrics)
        /\ t.texture = t.canvas

\* C5: a render trigger runs updateText exactly when the object is dirty and
\* leaves it clean; on a clean object it changes nothing of the layout output.
C5_RenderIdempotent ==
    [][op' = "render" =>
          /\ ~t'.dirty
          /\ ranUpdate' = t.dirty
          /\ (~t.dirty =>
                 /\ t'.canvas = t.canvas
                 /\ t'.texture = t.texture
                 /\ t'.pivot2 = t.pivot2
                 /\ t'.renderable = t.renderable
                 /\ t'.drawn = t.drawn)]_vars

\* The second of two render triggers in a row has returned.
C5_Witness == op = "render" /\ ~ranUpdate /\ ~t.dirty /\ t.drawn # <<>>

RECURSIVE NonEmpty(_, _)
\* The non-empty pieces among pieces, from piece k on.
NonEmpty(pieces, k) ==
    IF k > Len(pieces) THEN <<>>
    ELSE (IF pieces[k] = <<>> THEN <<>> ELSE <<pieces[k]>>) \o NonEmpty(pieces, k + 1)

\* The words of a text: what splitting on spaces and newlines leaves.
Words(s) ==
    NonEmpty(Split([k \in 1..Len(s) |-> IF s[k] = NL THEN SP ELSE s[k]], SP), 1)

\* The lines of the wrapped text.
WrappedLines == Split(wrapOut.result, NL)

\* A line that is one word wider than the budget.
OneWideWord(line) ==
    /\ Len(Words(line)) = 1
    /\ MeasureText(Words(line)[1], wrapIn.font) > wrapIn.width

\* C6: no line of the output of runWordWrap that holds a word measures more
\* than the budget, unless it is a single word that is itself wider than the
\* budget.
C6_LinesWithinBudget ==
    wrapOut.called =>
        \A k \in 1..Len(WrappedLines) :
            \/ Words(WrappedLines[k]) = <<>>
            \/ MeasureText(WrappedLines[k], wrapIn.font) <= wrapIn.width
            \/ OneWideWord(WrappedLines[k])

\* The source lines of the text given to runWordWrap.
SourceLines == Split(wrapIn.text, NL)

\* C7: runWordWrap keeps the words, in order; it keeps every source newline
\* as a break and wraps each source line on its own, from the full budget.
C7_WordsAndBreaksKept ==
    wrapOut.called =>
        /\ Words(wrapOut.result) = Words(wrapIn.text)
        /\ wrapOut.result =
               Join([k \in 1..Len(SourceLines) |->
                        runWordWrap(SourceLines[k], wrapIn.width, wrapIn.font)], NL, 1)

\* A text of two source lines came back as three lines: the first source
\* line was wrapped, the second has words.
C7_Witness ==
    /\ wrapOut.called
    /\ Len(SourceLines) = 2
    /\ Len(WrappedLines) = 3
    /\ Len(Words(SourceLines[1])) = 2
    /\ Words(SourceLines[2]) # <<>>

RECURSIVE RunColor(_, _, _)
\* The colour of the run index i lies in: that of the nearest defined index
\* at or before i, the base colour when there is none.
RunColor(colors, i, base) ==
    IF i < 0 THEN base
    ELSE IF Defined(colors, i) THEN colors[i]
    ELSE RunColor(colors, i - 1, base)

\* The fillText calls of the last layout pass.
FillCalls == {k \in 1..Len(t.drawn) : t.drawn[k].kind = "fill"}

\* The laid-out text is one line.
SingleLine == Len(SplitLines(OutputText(t))) = 1

\* C8: on a single line with fill enabled, every character is filled with
\* the colour of its run: the colour last added at the nearest index at or
\* before it, the base style.fill before the first such index.
C8_FillRuns ==
    (~t.dirty /\ SingleLine /\ Truthy(t.style.fill) /\ DOMAIN t.colors # {}) =>
        /\ \A i \in 0..(Len(t.text) - 1) :
              \E k \in FillCalls :
                  /\ t.drawn[k].col = i
                  /\ t.drawn[k].str = <<t.text[i + 1]>>
                  /\ t.drawn[k].paint = RunColor(t.colors, i, t.style.fill)
        /\ \A k \in FillCalls :
              t.drawn[k].paint = RunColor(t.colors, t.drawn[k].col, t.style.fill)

\* A single line was drawn with two runs of different colours, the first
\* starting after the first character.
C8_Witness ==
    /\ ~t.dirty
    /\ SingleLine
    /\ DOMAIN t.colors = {1, 2}
    /\ t.colors[1] # t.colors[2]
    /\ FillCalls # {}

RECURSIVE TextIndex(_, _, _)
\* The index in the text string of column col of line lineNo (0-based), the
\* lines being separated by one newline character each.
TextIndex(lines, lineNo, col) ==
    IF lineNo = 0 THEN col
    ELSE Len(lines[lineNo]) + 1 + TextIndex(lines, lineNo - 1, col)

\* C9: a colour added at a position starts at the character at that index
\* of the text string, newlines counted (stated here for word wrap off).
C9_PositionIsStringIndex ==
    (~t.dirty /\ ~t.style.wordWrap /\ Truthy(t.style.fill)) =>
        \A p \in DOMAIN t.colors :
            (p < Len(t.text) /\ t.text[p + 1] # NL) =>
                \E k \in FillCalls :
                    /\ TextIndex(Split(t.text, NL), t.drawn[k].line, t.drawn[k].col) = p
                    /\ t.drawn[k].paint = t.colors[p]

\* The x of the call that draws the first segment of the line of call k, in
\* the same pass.
SegmentStart2(k) ==
    t.drawn[CHOOSE j \in 1..Len(t.drawn) :
                /\ t.drawn[j].kind = t.drawn[k].kind
                /\ t.drawn[j].line = t.drawn[k].line
                /\ t.drawn[j].col = 0].x2

\* C10: with array tabs, segment k + 1 of a line is drawn at tabs[k - 1]
\* from the start of the line: the entries are absolute stops.
C10_TabsAreAbsoluteStops ==
    (~t.dirty /\ t.style.tabs.kind = "array" /\ ~HasOverrides(t)) =>
        \A k \in 1..Len(t.drawn) :
            t.drawn[k].col > 0 =>
                t.drawn[k].x2 = SegmentStart2(k) + 2 * TabEntry(t.style.tabs, t.drawn[k].col)

\* The lines of the last layout.
DrawnLines == SplitLines(OutputText(t))

\* The passes the style turns on.
Passes ==
    (IF StrokeOn(t.style) THEN {"stroke"} ELSE {})
    \cup (IF Truthy(t.style.fill) THEN {"fill"} ELSE {})

\* The index in its line of the first character of segment c (1-based) of
\* the tab-separated segments segs.
RECURSIVE SegmentOffset(_, _)
SegmentOffset(segs, c) ==
    IF c = 1 THEN 0 ELSE SegmentOffset(segs, c - 1) + Len(segs[c - 1]) + 1

\* The calls of a pass that start segment c (1-based) of line i (0-based):
\* the call that draws the whole segment, or, when the line is drawn
\* character by character, the call that draws its first character.
SegmentCalls(kind, i, segs, c) ==
    {k \in 1..Len(t.drawn) :
        /\ t.drawn[k].kind = kind
        /\ t.drawn[k].line = i
        /\ \/ /\ t.drawn[k].n = -1
              /\ t.drawn[k].col = c - 1
              /\ t.drawn[k].str = segs[c]
           \/ /\ t.drawn[k].n # -1
              /\ t.drawn[k].col = SegmentOffset(segs, c)
              /\ segs[c] # <<>>
              /\ t.drawn[k].str = <<segs[c][1]>>}

\* Segment c (1-based) of the segments segs of line i is drawn in the pass
\* kind at a multiple of the tab size T that is not before the end of the
\* segment before it, and at the same place in every pass.
OnTabGrid(kind, i, segs, c, T) ==
    \E k \in SegmentCalls(kind, i, segs, c) :
        /\ t.drawn[k].x2 % (2 * T) = 0
        /\ c > 1 =>
              \E j \in SegmentCalls(kind, i, segs, c - 1) :
                  t.drawn[k].x2 >=
                      t.drawn[j].x2 + 2 * MeasureText(segs[c - 1], t.style.font)
        /\ \A other \in Passes :
              \E j \in SegmentCalls(other, i, segs, c) :
                  /\ t.drawn[j].x2 = t.drawn[k].x2
                  /\ t.drawn[j].y2 = t.drawn[k].y2

\* C11: with a scalar tab size T > 0, every tab-separated segment of every
\* line is drawn at a multiple of T at or beyond the end of the segment
\* before it, alike in the stroke pass and the fill pass.
C11_ScalarTabGrid ==
    (~t.dirty /\ t.style.tabs.kind = "scalar" /\ t.style.tabs.size > 0) =>
        \A i \in 1..Len(DrawnLines) :
            \A c \in 1..Len(Split(DrawnLines[i], TAB)) :
                \A kind \in Passes :
                    OnTabGrid(kind, i - 1, Split(DrawnLines[i], TAB), c, t.style.tabs.size)

\* The last operation ran updateTexture: setTextBounds, or a render that
\* laid the text out.
Synced == op = "setTextBounds" \/ (op = "render" /\ ranUpdate)

\* Twice the offset of the surface in the text bounds, by the alignment.
AnchorX2 ==
    CASE t.style.boundsAlignH = "center" ->
             2 * t.textBounds.x + t.textBounds.width - t.canvas.width
      [] t.style.boundsAlignH = "right" ->
             2 * (t.textBounds.x + t.textBounds.width - t.canvas.width)
      [] OTHER -> 2 * t.textBounds.x

AnchorY2 ==
    CASE t.style.boundsAlignV = "middle" ->
             2 * t.textBounds.y + t.textBounds.height - t.canvas.height
      [] t.style.boundsAlignV = "bottom" ->
             2 * (t.textBounds.y + t.textBounds.height - t.canvas.height)
      [] OTHER -> 2 * t.textBounds.y

\* The documented example: bounds (0, 0, 800, 600), center and bottom, a
\* surface of 100 by 40.
ExampleSync ==
    updateTexture([t EXCEPT !.canvas = [width |-> 100, height |-> 40],
                            !.textBounds = Bounds(0, 0, 800, 600),
                            !.style.boundsAlignH = "center",
                            !.style.boundsAlignV = "bottom"])

\* C12: after updateTexture with textBounds set the pivot is the negated
\* offset of the surface in the bounds, by boundsAlignH and boundsAlignV; in
\* the documented example the offset is (350, 560).
C12_PivotIsNegatedAnchor ==
    /\ (Synced /\ t.textBounds.set) =>
           t.pivot2 = [x |-> -AnchorX2, y |-> -AnchorY2]
    /\ ExampleSync.pivot2 = [x |-> -700, y |-> -1120]

\* A text centred at the bottom of its bounds, half a pixel off the grid.
C12_Witness ==
    /\ Synced
    /\ t.textBounds.set
    /\ t.style.boundsAlignH = "center"
    /\ t.style.boundsAlignV = "bottom"
    /\ t.pivot2.x % 2 = 1
    /\ t.pivot2.y < 0

\* C13: while textBounds is set, style.wordWrapWidth never exceeds the width
\* of the bounds, whatever setTextBounds, wordWrapWidth and setStyle calls
\* were made.
C13_WrapWidthWithinBounds ==
    t.textBounds.set => t.style.wordWrapWidth <= t.textBounds.width

\* The last operation was a render that laid the text out.
LaidOut == op = "render" /\ ranUpdate

\* The line spacing is negative and larger in size than the line height.
Overlapping ==
    /\ t.lineSpacing < 0
    /\ Abs(t.lineSpacing) > LineHeight(t, CurrentMetrics)

\* The text laid out with lineSpacing = -lineHeight.
AtLineHeight ==
    updateText([t EXCEPT !.lineSpacing = -LineHeight(t, CurrentMetrics)],
               cache, readback).o

\* C14: a negative lineSpacing larger in size than the line height gives the
\* canvas height and the baselines that lineSpacing = -lineHeight gives, and
\* the height is not negative.
C14_SpacingClampedToLineHeight ==
    (LaidOut /\ Overlapping) =>
        /\ t.canvas = AtLineHeight.canvas
        /\ t.drawn = AtLineHeight.drawn
        /\ t.canvas.height >= 0

\* Two lines laid out with lineSpacing = -100: they share one baseline.
C14_Witness ==
    /\ LaidOut
    /\ Overlapping
    /\ Len(DrawnLines) = 2
    /\ t.drawn # <<>>
    /\ \A k \in 1..Len(t.drawn) : t.drawn[k].y2 = t.drawn[1].y2
    /\ t.canvas.height = LineHeight(t, CurrentMetrics) * t.res

\* A call for a font the cache holds returns the entry and leaves the cache
\* alone, whatever a probe would find now.
HitReturnsEntry ==
    \A f \in DOMAIN cache :
        determineFontProperties(f, cache, ~readback) =
            [properties |-> cache[f], cache |-> cache]

\* A step keeps every entry of the cache, and adds at most the entry of the
\* font laid out, which it did not hold.
CacheStep ==
    /\ \A f \in DOMAIN cache : f \in DOMAIN cache' /\ cache'[f] = cache[f]
    /\ cache' # cache =>
          /\ ranUpdate'
          /\ t'.style.font \notin DOMAIN cache
          /\ DOMAIN cache' = DOMAIN cache \cup {t'.style.font}

\* C15: the metrics of a font string are probed at most once: a call for a
\* string the cache holds returns the entry without a probe, and no
\* operation, destroy included, removes or replaces an entry.
C15_ProbedOncePerFont ==
    [][HitReturnsEntry /\ CacheStep /\ HitReturnsEntry']_vars

\* A further object was laid out with a font whose entry was probed when
\* getImageData answered differently: the entry was kept.
C15_Witness ==
    /\ op = "new"
    /\ ranUpdate
    /\ left < MaxCalls
    /\ t.style.font \in DOMAIN cache
    /\ cache[t.style.font] # ProbeFont(t.style.font, readback)

\* The style, variant, weight, size and family a parse gives.
Effective(components) ==
    <<components.fontStyle, components.fontVariant, components.fontWeight,
      components.fontSize, components.fontFamily>>

\* C16: the components of a well-formed shorthand, serialized by
\* componentsToFont and parsed again by fontToComponents, are the same style,
\* variant, weight, size and family.
C16_FontRoundTrip ==
    [][op' = "cssFont" => Effective(t'.fontComponents) = Effective(t.fontComponents)]_vars

\* The font was last set, by the cssFont setter, to a string the parser
\* rejects.
OpaqueFont == op = "cssFont" /\ Unparsable(t.fontComponents.font)

\* The part of C17 about the string and the style, variant and weight.
OpaqueFontKept ==
    OpaqueFont =>
        /\ t.style.font = t.fontComponents.font
        /\ \A key \in {"fontStyle", "fontVariant", "fontWeight"} :
              fontComponentGetter(t, key) = "normal"

\* C17: after the font is set to an unparsable string, style.font is that
\* string, the fontStyle, fontVariant and fontWeight getters return 'normal',
\* the fontSize getter returns 'medium' and the font getter returns the string.
C17_UnparsableFontIsOpaqueFamily ==
    /\ OpaqueFontKept
    /\ OpaqueFont =>
          /\ fontComponentGetter(t, "fontSize") = "medium"
          /\ fontGetter(t) = t.fontComponents.font

\* C18: parseList with an argument that is not a list returns the Text as it
\* was: the text, the dirty flag and every other field are unchanged.
C18_ParseListIgnoresNonList ==
    [][op' = "parseList(other)" => (t' = t /\ cache' = cache)]_vars

\* parseList was called with a non-list on a laid out, clean text: the text
\* is still there and still clean.
C18_Witness ==
    /\ op = "parseList(other)"
    /\ t.text # <<>>
    /\ ~t.dirty

\* C19: after every updateTexture, in a layout pass or in setTextBounds, the
\* text is renderable exactly when the width and the height of its surface
\* are both non-zero.
C19_RenderableIffArea ==
    (Synced \/ (op = "new" /\ ranUpdate)) =>
        /\ t.texture = t.canvas
        /\ t.renderable <=> (t.canvas.width # 0 /\ t.canvas.height # 0)

\* An empty text was laid out: its surface is zero wide, and it is not
\* renderable.
C19_Witness ==
    /\ LaidOut
    /\ t.canvas.width = 0
    /\ t.canvas.height # 0
    /\ ~t.renderable

\* C20: after any sequence of setStyle, cssFont, font, fontSize, fontWeight,
\* fontStyle and fontVariant operations, style.font is the serialization of
\* the current font components.
C20_FontIsSerializedComponents ==
    t.style.font = componentsToFont(t.fontComponents)

\* Two font operations were made, the last one on a single component, and
\* style.font is no longer the string the components were parsed from.
C20_Witness ==
    /\ op \in FontProps
    /\ left = 0
    /\ t.style.font # t.fontComponents.font
    /\ t.style.font # DefaultFont

\* The text given to runWordWrap has two words on one line with two or more
\* spaces, and nothing else, between them.
SpaceRunBetweenWords ==
    \E i, j \in 1..Len(wrapIn.text) :
        /\ j > i + 2
        /\ wrapIn.text[i] \notin {SP, NL}
        /\ wrapIn.text[j] \notin {SP, NL}
        /\ \A m \in (i + 1)..(j - 1) : wrapIn.text[m] = SP

\* The wrapped text has two spaces next to each other.
SpaceRunInResult ==
    \E k \in 1..(Len(wrapOut.result) - 1) :
        wrapOut.result[k] = SP /\ wrapOut.result[k + 1] = SP

\* C21 as stated: a run of two or more spaces between words comes out as a
\* single space, so the output of runWordWrap has no two spaces in a row.
C21_SpaceRunsCollapsed ==
    (wrapOut.called /\ SpaceRunBetweenWords) => ~SpaceRunInResult

\* C21, amended: runWordWrap keeps every space. Its output without the line
\* breaks is its input with each newline replaced by a space, and one more
\* space at the end: every word, the empty words between adjacent spaces
\* included, is written out followed by one space.
C21_SpacesKept ==
    wrapOut.called =>
        SelectSeq(wrapOut.result, LAMBDA c : c # NL) =
            [k \in 1..Len(wrapIn.text) |->
                IF wrapIn.text[k] = NL THEN SP ELSE wrapIn.text[k]] \o <<SP>>

\* Two words with two spaces between them were wrapped, and two spaces in a
\* row came out.
C21_Witness ==
    /\ wrapOut.called
    /\ SpaceRunBetweenWords
    /\ SpaceRunInResult

RECURSIVE SumFirst(_, _)
\* The sum of the first n entries of a sequence of numbers.
SumFirst(stops, n) == IF n = 0 THEN 0 ELSE SumFirst(stops, n - 1) + stops[n]

\* The width the claim gives a line under array tabs: the tab entries before
\* its last segment, and the measured width of that segment.
LastSegmentWidth(line) ==
    SumFirst(t.style.tabs.stops, Len(Split(line, TAB)) - 1)
    + MeasureText(Split(line, TAB)[Len(Split(line, TAB))], t.style.font)

\* The largest of the widths the claim gives the lines from line k on.
RECURSIVE WidestLastSegment(_)
WidestLastSegment(k) ==
    IF k > Len(DrawnLines) THEN 0
    ELSE Max(LastSegmentWidth(DrawnLines[k]), WidestLastSegment(k + 1))

Breaks(s) ==
    {k \in 1..Len(s) :
        \/ s[k] = NL
        \/ s[k] = CR /\ (k = Len(s) \/ s[k + 1] # NL)}

\* The number of lines of the last layout.
LineCount == Cardinality(Breaks(OutputText(t))) + 1

\* The line spacing, a negative one clamped to the line height.
ClampedSpacing ==
    IF t.lineSpacing < 0 /\ -t.lineSpacing > LineHeight(t, CurrentMetrics)
    THEN -LineHeight(t, CurrentMetrics)
    ELSE t.lineSpacing

\* C23: after a layout pass the surface is the widest line times the
\* resolution wide and (lineHeight * lineCount + lineSpacing' * (lineCount -
\* 1)) * resolution high, with lineHeight = fontSize + strokeThickness +
\* padding.y, lineSpacing' the clamped spacing, and the lines those between
\* \r\n, \r and \n.
C23_SurfaceSize ==
    (LaidOut \/ (op = "new" /\ ranUpdate)) =>
        /\ Len(DrawnLines) = LineCount
        /\ LineHeight(t, CurrentMetrics) =
               cache[t.style.font].fontSize + t.style.strokeThickness + paddingY
        /\ t.canvas.width = MaxOf(LineWidths(DrawnLines, t.style), 1) * t.res
        /\ t.canvas.height =
               (LineHeight(t, CurrentMetrics) * LineCount
                + ClampedSpacing * (LineCount - 1)) * t.res

\* A text of three lines, broken by \r\n and \r, laid out at resolution 2
\* with a line spacing that was clamped.
C23_Witness ==
    /\ LaidOut
    /\ t.res = 2
    /\ LineCount = 3
    /\ \E k \in 1..Len(t.text) : t.text[k] = CR
    /\ ClampedSpacing # t.lineSpacing
    /\ t.canvas.width = 2 * MeasureText(<<"W">>, t.style.font)
    /\ t.canvas.height = 2 * LineHeight(t, CurrentMetrics)

\* The baseline of the probe of a font: the measured width times 1.4, cut to
\* an integer.
ProbeBaseline(f) == (ProbeWidth(f) * 14) \div 10

\* Every entry of the cache has fontSize = ascent + descent, a non-negative
\* ascent and a descent of at least the bias.
EntriesSound ==
    \A f \in DOMAIN cache :
        /\ cache[f].fontSize = cache[f].ascent + cache[f].descent
        /\ cache[f].ascent >= 0
        /\ cache[f].descent >= DescentBias

\* An entry added while getImageData does not answer is the baseline and the
\* baseline plus the bias.
FallbackStep ==
    \A f \in DOMAIN cache' \ DOMAIN cache :
        ~readback =>
            /\ cache'[f].ascent = ProbeBaseline(f)
            /\ cache'[f].descent = ProbeBaseline(f) + DescentBias

\* C24: every entry determineFontProperties caches has fontSize = ascent +
\* descent, ascent >= 0 and descent >= 6, scanned or not; without pixel
\* readback the call caches ascent = baseline and descent = baseline + 6.
C24_MetricsSound ==
    [][EntriesSound /\ FallbackStep /\ EntriesSound']_vars

\* The cache holds an entry made without readback and a scanned one, whose
\* ascent is below the baseline.
C24_Witness ==
    \E f, g \in DOMAIN cache :
        /\ cache[f].ascent = ProbeBaseline(f)
        /\ cache[f].descent = ProbeBaseline(f) + DescentBias
        /\ cache[g].ascent < ProbeBaseline(g)
        /\ cache[g].ascent > 0
        /\ cache[g].descent > DescentBias

\* The style, variant, weight and size of the current components, in that
\* order, each with its neutral value.
FontFields ==
    <<[v |-> t.fontComponents.fontStyle, neutral |-> "normal"],
      [v |-> t.fontComponents.fontVariant, neutral |-> "normal"],
      [v |-> t.fontComponents.fontWeight, neutral |-> "normal"],
      [v |-> t.fontComponents.fontSize, neutral |-> "medium"]>>

\* The fields that are neither absent nor neutral.
EmittedFields == SelectSeq(FontFields, LAMBDA f : f.v \notin {UNDEF, "", f.neutral})

\* What is emitted: those fields, then the family if there is one.
EmittedWords ==
    [k \in 1..Len(EmittedFields) |-> EmittedFields[k].v]
    \o (IF t.fontComponents.fontFamily \in {NoFamily, <<>>}
        THEN <<>> ELSE t.fontComponents.fontFamily)

\* C25: componentsToFont emits style, variant, weight, size and family in
\* that order, leaves out every field that is absent or neutral ('normal',
\* or 'medium' for the size), and gives the original font string exactly
\* when it emitted nothing.
C25_SerializationOrder ==
    cssFontGetter(t) = IF EmittedWords = <<>> THEN t.fontComponents.font
                       ELSE EmittedWords

\* An italic component was set on the default font: four words are emitted,
\* the style before the weight; the variant, neutral, is left out.
C25_Witness ==
    /\ op = "fontStyle"
    /\ t.fontComponents.fontVariant = "normal"
    /\ cssFontGetter(t) = <<"italic", "bold", "20pt", "Arial">>

\* What a call draws in one go with its pass: a line, or one character of a
\* line when the override maps are populated.
DrawUnit(k) ==
    IF t.drawn[k].n = -1 THEN <<t.drawn[k].line, -1>>
    ELSE <<t.drawn[k].line, t.drawn[k].col>>

\* The calls of one pass.
CallsOf(kind) == {k \in 1..Len(t.drawn) : t.drawn[k].kind = kind}

\* The shadow parameters a pass is drawn with: those of the style when the
\* flag of the pass is set, zeros otherwise.
PassShadow(kind) ==
    IF (kind = "stroke" /\ t.style.shadowStroke) \/ (kind = "fill" /\ t.style.shadowFill)
    THEN [x |-> t.style.shadowOffsetX, y |-> t.style.shadowOffsetY,
          color |-> t.style.shadowColor, blur |-> t.style.shadowBlur]
    ELSE [x |-> 0, y |-> 0, color |-> "0", blur |-> 0]

\* C26: in a layout pass the stroke pass runs only with a stroke style and a
\* strokeThickness, the fill pass only with a fill; for each line, or each
\* character under overrides, the stroke comes before the fill; and each
\* call carries the style's shadow exactly when the flag of its own pass is
\* set, zeros otherwise.
C26_StrokeThenFillOwnShadow ==
    (LaidOut \/ (op = "new" /\ ranUpdate)) =>
        /\ CallsOf("stroke") # {} =>
               (t.style.stroke \notin {UNDEF, ""} /\ t.style.strokeThickness > 0)
        /\ CallsOf("fill") # {} => t.style.fill \notin {UNDEF, ""}
        /\ t.style.stroke \notin {UNDEF, ""} /\ t.style.strokeThickness > 0
               /\ t.style.fill \notin {UNDEF, ""} =>
               /\ \A k \in CallsOf("fill") :
                      \E j \in CallsOf("stroke") : DrawUnit(j) = DrawUnit(k)
               /\ \A j \in CallsOf("stroke") :
                      \E k \in CallsOf("fill") : DrawUnit(j) = DrawUnit(k)
        /\ \A j \in CallsOf("stroke"), k \in CallsOf("fill") :
               DrawUnit(j) = DrawUnit(k) => j < k
        /\ \A k \in 1..Len(t.drawn) : t.drawn[k].shadow = PassShadow(t.drawn[k].kind)

\* A stroked text with a shadow for the stroke only was laid out: the stroke
\* call carries the shadow, the fill call after it none.
C26_Witness ==
    /\ LaidOut
    /\ t.style.shadowStroke
    /\ ~t.style.shadowFill
    /\ t.style.shadowBlur = 1
    /\ \E j \in CallsOf("stroke"), k \in CallsOf("fill") :
           /\ k > j
           /\ t.drawn[j].shadow.blur = 1
           /\ t.drawn[k].shadow.blur = 0

\* seq ends with the words of suffix.
EndsWith(seq, suffix) ==
    /\ Len(suffix) <= Len(seq)
    /\ SubSeq(seq, Len(seq) - Len(suffix) + 1, Len(seq)) = suffix

\* The step keeps every font component but the one named key.
OnlyComponentChanged(key) ==
    \A other \in (DOMAIN t.fontComponents) \ {key} :
        t'.fontComponents[other] = t.fontComponents[other]

\* After the step style.font still ends with the family that was in effect,
\* or with the opaque original string when there was none.
FamilyCarried ==
    IF FamilyTruthy(t.fontComponents.fontFamily)
    THEN EndsWith(t'.style.font, t.fontComponents.fontFamily)
    ELSE Unparsable(t.fontComponents.font) =>
             EndsWith(t'.style.font, t.fontComponents.font)

\* After the step style.font reads back, for the component named key, as the
\* value the component now has.
NotStale(key) ==
    fontToComponents(t'.style.font)[key] = t'.fontComponents[key]

\* C27: an assignment to fontWeight, fontStyle, fontVariant or fontSize
\* changes that component only; style.font still carries the family, or the
\* opaque original string, and does not show a value of the component other
\* than the one just set.
C27_ComponentSetterKeepsFont ==
    [][op' \in FontProps =>
          /\ OnlyComponentChanged(op')
          /\ FamilyCarried
          /\ NotStale(op')]_vars

\* The widths the layout step computed for the lines of the last layout.
DrawnWidths == LineWidths(DrawnLines, t.style)

\* Twice the distance from the left edge of the surface to the left edge of
\* line i (1-based): what the alignment adds to linePositionX.
LineLeft2(i) ==
    CASE t.style.align = "right" -> 2 * (MaxOf(DrawnWidths, 1) - DrawnWidths[i])
      [] t.style.align = "center" -> MaxOf(DrawnWidths, 1) - DrawnWidths[i]
      [] OTHER -> 0

\* Twice the start X updateText computes for line i (1-based).
LineStart2(i) == t.style.strokeThickness + LineLeft2(i)

\* Segment c of the segments segs of line i (1-based) is drawn, in the pass
\* kind, inside the width computed for the line.
WithinLine(kind, i, segs, c) ==
    \A k \in SegmentCalls(kind, i - 1, segs, c) :
        /\ t.drawn[k].x2 >= LineLeft2(i)
        /\ t.drawn[k].x2 + 2 * MeasureText(segs[c], t.style.font)
               <= LineLeft2(i) + 2 * DrawnWidths[i]
        /\ t.drawn[k].x2 + 2 * MeasureText(segs[c], t.style.font)
               <= 2 * MaxOf(DrawnWidths, 1)

\* C28: with a scalar tab size and no per-character override, the first
\* segment of every line is drawn at the start X computed for the line, and
\* every segment is drawn inside the width computed for its line, hence
\* inside the surface.
C28_ScalarTabsWithinLine ==
    (/\ ~t.dirty
     /\ t.style.tabs.kind = "scalar"
     /\ t.style.tabs.size > 0
     /\ ~HasOverrides(t)) =>
        \A i \in 1..Len(DrawnLines) :
            \A kind \in Passes :
                /\ \E k \in SegmentCalls(kind, i - 1, Split(DrawnLines[i], TAB), 1) :
                       t.drawn[k].x2 = LineStart2(i)
                /\ \A c \in 1..Len(Split(DrawnLines[i], TAB)) :
                       WithinLine(kind, i, Split(DrawnLines[i], TAB), c)

\* The text laid out as it is, but with every override map empty.
WithoutOverrides ==
    updateText([t EXCEPT !.colors = <<>>, !.strokeColors = <<>>,
                         !.fontWeights = <<>>, !.fontStyles = <<>>],
               cache, readback).o

\* Where the calls drawn start segment c (1-based) of the segments segs of
\* line i (0-based) in the pass kind: the call that draws the whole segment
\* or, character by character, the call that draws its first character.
SegmentStarts(drawn, kind, i, segs, c) ==
    {drawn[k].x2 : k \in
        {j \in 1..Len(drawn) :
            /\ drawn[j].kind = kind
            /\ drawn[j].line = i
            /\ \/ /\ drawn[j].n = -1
                  /\ drawn[j].col = c - 1
                  /\ drawn[j].str = segs[c]
               \/ /\ drawn[j].n # -1
                  /\ drawn[j].col = SegmentOffset(segs, c)
                  /\ segs[c] # <<>>
                  /\ drawn[j].str = <<segs[c][1]>>}}

\* Every segment of every line starts, in every pass, where plain starts it.
SameSegmentStarts(plain) ==
    \A i \in 1..Len(DrawnLines) :
        \A c \in 1..Len(Split(DrawnLines[i], TAB)) :
            \A kind \in Passes :
                SegmentStarts(t.drawn, kind, i - 1, Split(DrawnLines[i], TAB), c)
                    = SegmentStarts(plain, kind, i - 1, Split(DrawnLines[i], TAB), c)

\* C29: with tabs enabled, every tab-separated segment of every line is
\* drawn at the x position at which it is drawn when all the override maps
\* (colors, strokeColors, fontStyles, fontWeights) are empty.
C29_OverridesKeepTabStops ==
    (~t.dirty /\ ~TabsOff(t.style.tabs)) => SameSegmentStarts(WithoutOverrides.drawn)

====
